---- MODULE Spec2Model ----
(***************************************************************************)
(* Model of the UDP broadcast server (src/server.py): the client registry  *)
(* (clients / client_last_seen under self.lock), the listener thread       *)
(* (listen_for_clients) and the broadcaster running on the main thread      *)
(* (broadcast_lines with remove_stale_clients), together with the          *)
(* environment they run in: the wall clock, the datagrams that arrive, the  *)
(* outcome of every sendto, the payload file and the interrupt signal.      *)
(***************************************************************************)
EXTENDS Integers, Sequences, FiniteSets, TLC

\* ------------------------------------------------------------------ bounds
\* The payload file holds at most MaxLines lines.
MaxLines == 2
\* A received datagram holds at most MaxDatagramLen tokens.
MaxDatagramLen == 2
\* The lines sent to an endpoint after its DISCONNECT are counted up to
\* MaxLate.
MaxLate == 2

\* The clock of the client runs in steps of ClockStep seconds, up to
\* Horizon seconds after the hour.
ClockStep == 5
Horizon == 70

\* ------------------------------------------------------- program constants
HEARTBEAT_TIMEOUT == 30
\* src/client.py
HEARTBEAT_INTERVAL == 10

\* --------------------------------------------------------------- clock
\* The readings time.time() takes: the instant the server is constructed
\* and later ones at 25, 30 and 35 seconds from it, so that records of age
\* below, at and above HEARTBEAT_TIMEOUT all occur.
Instants == {20, 45, 50, 55}

StartTime == CHOOSE t \in Instants : \A u \in Instants : t <= u

LastInstant == CHOOSE t \in Instants : \A u \in Instants : u <= t

\* The subscribers' (ip, port) addresses.
Endpoints == {"A", "B"}
NoAddr == "-"

\* ------------------------------------------------------------- datagrams
\* A datagram is a short sequence of tokens: a control word, some other
\* text ("X"), a run of whitespace (" "), or bytes that are not UTF-8.
BadBytes == "\\xff"
Whitespace == {" "}
Tokens == {"CONNECT", "HEARTBEAT", "DISCONNECT", "X", " ", BadBytes}

RECURSIVE SeqsUpTo(_, _)
SeqsUpTo(S, n) ==
    IF n = 0 THEN {<<>>}
    ELSE LET shorter == SeqsUpTo(S, n - 1)
         IN  shorter \cup {Append(s, x) : s \in shorter, x \in S}

Datagrams == SeqsUpTo(Tokens, MaxDatagramLen)

\* One datagram for each way the listener can take a datagram: the three
\* control messages and a text that is none of them.
PlainDatagrams == {<<"CONNECT">>, <<"HEARTBEAT">>, <<"DISCONNECT">>, <<"X">>}

\* data.decode('utf-8'): raises UnicodeDecodeError on bytes that are not UTF-8.
DecodeFails(data) == \E i \in 1..Len(data) : data[i] = BadBytes

\* str.strip(): drops the leading and the trailing whitespace.
RECURSIVE LStrip(_)
LStrip(s) ==
    IF s # <<>> /\ Head(s) \in Whitespace THEN LStrip(Tail(s)) ELSE s

RECURSIVE RStripWs(_)
RStripWs(s) ==
    IF s # <<>> /\ s[Len(s)] \in Whitespace
    THEN RStripWs(SubSeq(s, 1, Len(s) - 1)) ELSE s

Strip(s) == RStripWs(LStrip(s))

\* Mutant of IsRegisterMessage: DISCONNECT is in the list of the first branch.
IsRegisterMessage_Any(message) ==
    message \in {<<"CONNECT">>, <<"HEARTBEAT">>, <<"DISCONNECT">>}

\* message = data.decode('utf-8').strip(), and the branch the listener takes
\* on it: "register", "disconnect", "ignore", or "error" when decode raises.
IsRegisterMessage(message) == message \in {<<"CONNECT">>, <<"HEARTBEAT">>}

IsDisconnectMessage(message) == message = <<"DISCONNECT">>

Dispatch(data) ==
    IF DecodeFails(data) THEN "error"
    ELSE IF IsRegisterMessage(Strip(data)) THEN "register"
    ELSE IF IsDisconnectMessage(Strip(data)) THEN "disconnect"
    ELSE "ignore"

\* --------------------------------------------------------- payload file
\* A raw line of the file, as readlines() returns it: a line of text ending
\* in CR LF, or a blank line.
RawLines == {<<"a", "\r", "\n">>, <<"\n">>}

\* line.rstrip('\n\r')
RECURSIVE RStripEol(_)
RStripEol(s) ==
    IF s # <<>> /\ s[Len(s)] \in {"\n", "\r"}
    THEN RStripEol(SubSeq(s, 1, Len(s) - 1)) ELSE s

FileContents == SeqsUpTo(RawLines, MaxLines)

\* The file as the operating system holds it.
FileStates ==
    [exists : {TRUE}, readable : {TRUE}, content : FileContents]
    \cup {[exists |-> TRUE, readable |-> FALSE, content |-> <<>>],
          [exists |-> FALSE, readable |-> FALSE, content |-> <<>>]}

\* read_file_lines: the stripped lines, or [] when open/read raises.
read_file_lines(f) ==
    IF f.exists /\ f.readable
    THEN [i \in 1..Len(f.content) |-> RStripEol(f.content[i])]
    ELSE <<>>

\* validate_data_file
validate_data_file(f) == f.exists

\* f"{line}\r\n".encode('utf-8')
DataMessage(line) == line \o <<"\r", "\n">>

AckMessage == <<"ACK">>


\* ------------------------------------------------------------------- state
VARIABLES
    \* UDPBroadcastServer fields
    running,            \* self.running
    sockOpen,           \* self.socket is bound and not closed
    interrupted,        \* KeyboardInterrupt has been raised in the main thread
    start_error,        \* start() has raised an Exception into main()
    exit_status,        \* the status the process has exited with, or NoStatus
    clients,            \* self.clients
    client_last_seen,   \* self.client_last_seen: endpoint -> timestamp
    lock,               \* holder of self.lock: "free", "listener", "broadcaster"
    \* listener thread (listen_for_clients)
    lpc,                \* its position
    address,            \* sender of the datagram being handled
    message,            \* decoded, stripped text of that datagram
    \* main thread (start, broadcast_lines, remove_stale_clients, stop)
    bpc,                \* its position
    lines,              \* the lines loaded for this traversal
    idx,                \* position of `line` in `lines` (0: none)
    current_time,       \* remove_stale_clients' reading of the clock
    stale_clients,      \* remove_stale_clients' list
    clients_copy,       \* the snapshot of this tick
    todo,               \* endpoints of clients_copy not yet iterated
    client_address,     \* endpoint whose sendto raised
    \* environment
    wire,               \* the datagram the step just taken handed to sendto
    now,                \* time.time()
    file,               \* the payload file
    \* history, recorded by the observers below
    heard,              \* the datagram recvfrom returned, while the listener
                        \* handles it (one step long when it is discarded)
    refreshed,          \* the timestamp the registration being acknowledged
                        \* replaced, NoTime when there was none
    regTime,            \* time of each endpoint's latest CONNECT/HEARTBEAT
                        \* with no DISCONNECT processed since, else NoTime
    gone,               \* how a registered endpoint left since: "no","reap","send"
    delivered,          \* endpoints sent the current line in this tick
    failed,             \* endpoints whose sendto raised in this tick
    steady,             \* endpoint registered since this traversal's load
    sentLog,            \* line positions sent to a steady endpoint, in order
    late,               \* lines sent to an endpoint since its DISCONNECT was
                        \* processed, with no registration of it since
    renewed,            \* what the endpoint whose sendto raised has had since,
                        \* the handler not yet done: "no", "registered", "acked"
    \* UDPClient (src/client.py), at endpoint ClientEndpoint
    c_running,          \* self.running
    c_sockOpen,         \* self.socket is created and not closed
    cpc,                \* position of its main thread (start, receive_data, stop)
    hpc,                \* position of its heartbeat thread (send_heartbeat)
    wake,               \* when the heartbeat thread's time.sleep ends
    net                 \* the datagrams the client has sent, not yet received
                        \* by the server, in order

regVars == <<clients, client_last_seen, lock>>
lVars == <<lpc, address, message>>
bVars == <<bpc, lines, idx, current_time, stale_clients, clients_copy, todo,
           client_address>>
sysVars == <<running, sockOpen, interrupted, start_error, exit_status>>
envVars == <<now, file>>
regHist == <<regTime, gone, refreshed>>
txHist == <<delivered, failed, steady, sentLog>>
raceHist == <<late, renewed>>
clientVars == <<c_running, c_sockOpen, cpc, hpc, wake, net>>
vars == <<sysVars, regVars, lVars, bVars, wire, envVars, heard, regHist,
          txHist, raceHist, clientVars>>

NoTime == 0 - 1
NoStatus == 0 - 1
\* The status of a process whose main() has returned.
EXIT_OK == 0
NoMessage == <<>>

\* A datagram with the endpoint at the other end of it.
Datagram(peer, data) == [peer |-> peer, data |-> data]

NoDatagram == Datagram(NoAddr, <<>>)

EmptyMap == [e \in {} |-> 0]

\* client_last_seen with the endpoints of S dropped.
Without(f, S) == [e \in DOMAIN f \ S |-> f[e]]

\* client_last_seen[e] = t
Stamped(f, e, t) == [x \in DOMAIN f \cup {e} |-> IF x = e THEN t ELSE f[x]]

\* UDPBroadcastServer.__init__
Init ==
    /\ running = FALSE
    /\ sockOpen = FALSE
    /\ interrupted = FALSE
    /\ start_error = FALSE
    /\ exit_status = NoStatus
    /\ clients = {}
    /\ client_last_seen = EmptyMap
    /\ lock = "free"
    /\ lpc = "unborn"
    /\ address = NoAddr
    /\ message = NoMessage
    /\ bpc = "init"
    /\ lines = <<>>
    /\ idx = 0
    /\ current_time = 0
    /\ stale_clients = {}
    /\ clients_copy = {}
    /\ todo = {}
    /\ client_address = NoAddr
    /\ wire = NoDatagram
    /\ now = StartTime
    /\ file \in FileStates
    /\ heard = NoDatagram
    /\ refreshed = NoTime
    /\ regTime = [e \in Endpoints |-> NoTime]
    /\ gone = [e \in Endpoints |-> "no"]
    /\ delivered = {}
    /\ failed = {}
    /\ steady = [e \in Endpoints |-> FALSE]
    /\ sentLog = [e \in Endpoints |-> <<>>]
    /\ late = [e \in Endpoints |-> 0]
    /\ renewed = "no"
    /\ c_running = FALSE
    /\ c_sockOpen = FALSE
    /\ cpc = "init"
    /\ hpc = "unborn"
    /\ wake = 0
    /\ net = <<>>

\* ------------------------------------------------------ start and stop
\* start(): validate the file, create and bind the socket, set running and
\* spawn the listener; the main thread goes on into broadcast_lines. When
\* validation fails (FileNotFoundError) or bind raises (logged and raised
\* again), the exception reaches main(), whose `except Exception` logs it.
Start(bindOk) ==
    /\ bpc = "init"
    /\ IF validate_data_file(file) /\ bindOk
       THEN /\ sockOpen' = TRUE
            /\ running' = TRUE
            /\ start_error' = FALSE
            /\ lpc' = "while"
            /\ bpc' = "while"
       ELSE /\ sockOpen' = FALSE
            /\ running' = FALSE
            /\ start_error' = TRUE
            /\ lpc' = lpc
            /\ bpc' = "failed"
    /\ wire' = NoDatagram
    /\ UNCHANGED <<interrupted, exit_status, regVars, address, message,
                   lines, idx, current_time, stale_clients, clients_copy,
                   todo, client_address, envVars>>

Broadcasting ==
    bpc \in {"while", "wait", "for", "reap1", "reap2", "snap", "send",
             "evict1", "evict2", "sleep"}

\* KeyboardInterrupt reaches the main thread inside broadcast_lines; a `with
\* self.lock` block it is in releases the lock on the way out.
Interrupt ==
    /\ Broadcasting
    /\ bpc' = "stopping"
    /\ interrupted' = TRUE
    /\ lock' = IF lock = "broadcaster" THEN "free" ELSE lock
    /\ wire' = NoDatagram
    /\ UNCHANGED <<running, sockOpen, start_error, exit_status, clients,
                   client_last_seen, lVars, lines, idx, current_time,
                   stale_clients, clients_copy, todo, client_address,
                   envVars>>

\* Mutant of Stop: stop() closes the socket and leaves the flag set.
Stop_KeepRunning ==
    /\ bpc \in {"stopping", "failed"}
    /\ running' = running
    /\ bpc' = "closing"
    /\ wire' = NoDatagram
    /\ UNCHANGED <<sockOpen, interrupted, start_error, exit_status, regVars,
                   lVars, lines, idx, current_time, stale_clients,
                   clients_copy, todo, client_address, envVars>>

\* stop(), run by the finally clause of main(): self.running = False
Stop ==
    /\ bpc \in {"stopping", "failed"}
    /\ running' = FALSE
    /\ bpc' = "closing"
    /\ wire' = NoDatagram
    /\ UNCHANGED <<sockOpen, interrupted, start_error, exit_status, regVars,
                   lVars, lines, idx, current_time, stale_clients,
                   clients_copy, todo, client_address, envVars>>

\* stop(): if self.socket: self.socket.close()
CloseSocket ==
    /\ bpc = "closing"
    /\ sockOpen' = FALSE
    /\ bpc' = "done"
    /\ wire' = NoDatagram
    /\ UNCHANGED <<running, interrupted, start_error, exit_status, regVars,
                   lVars, lines, idx, current_time, stale_clients,
                   clients_copy, todo, client_address, envVars>>

\* The status main() leaves the process with: both except clauses log and
\* fall through, so main() returns and the interpreter exits with 0.
Status(error) == EXIT_OK

\* main() returns and the process exits; the listener, a daemon thread,
\* ends with it.
Exit ==
    /\ bpc = "done"
    /\ bpc' = "exited"
    /\ exit_status' = Status(start_error)
    /\ lpc' = IF lpc \in {"unborn", "done"} THEN lpc ELSE "killed"
    /\ wire' = NoDatagram
    /\ UNCHANGED <<running, sockOpen, interrupted, start_error, regVars,
                   address, message, lines, idx, current_time, stale_clients,
                   clients_copy, todo, client_address, envVars>>

\* ------------------------------------------------------------ listener
\* Mutant of ListenLoop: `while True:` in place of `while self.running:`.
ListenLoop_Forever ==
    /\ lpc = "while"
    /\ lpc' = "recv"
    /\ wire' = NoDatagram
    /\ UNCHANGED <<sysVars, regVars, address, message, bVars, envVars>>

\* while self.running:
ListenLoop ==
    /\ lpc = "while"
    /\ lpc' = IF running THEN "recv" ELSE "done"
    /\ wire' = NoDatagram
    /\ UNCHANGED <<sysVars, regVars, address, message, bVars, envVars>>

\* Mutant of AfterReceive: decode is outside the try block, so the
\* UnicodeDecodeError ends the listener thread.
AfterReceive_Unguarded(branch) ==
    CASE branch = "register" -> "add1"
      [] branch = "disconnect" -> "disc1"
      [] branch = "error" -> "done"
      [] OTHER -> "while"

\* Where the listener goes on a datagram: into add_client, into the
\* DISCONNECT branch, or back to the loop (no branch matches, or decode
\* raised and `except Exception` logged it).
AfterReceive(branch) ==
    CASE branch = "register" -> "add1"
      [] branch = "disconnect" -> "disc1"
      [] OTHER -> "while"

\* recvfrom returns datagram `data` from `sender`; decode, strip, dispatch.
Receive(sender, data) ==
    /\ lpc = "recv"
    /\ sockOpen
    /\ LET branch == Dispatch(data)
       IN  /\ lpc' = AfterReceive(branch)
           /\ address' = IF branch \in {"register", "disconnect"}
                         THEN sender ELSE NoAddr
           /\ message' = IF branch \in {"register", "disconnect"}
                         THEN Strip(data) ELSE NoMessage
    /\ wire' = NoDatagram
    /\ UNCHANGED <<sysVars, regVars, bVars, envVars>>

\* recvfrom raises socket.timeout after one second: continue.
ReceiveTimeout ==
    /\ lpc = "recv"
    /\ sockOpen
    /\ lpc' = "while"
    /\ wire' = NoDatagram
    /\ UNCHANGED <<sysVars, regVars, address, message, bVars, envVars>>

\* recvfrom raises another exception (always, once the socket is closed):
\* caught by `except Exception`, logged while running.
ReceiveError ==
    /\ lpc = "recv"
    /\ lpc' = "while"
    /\ wire' = NoDatagram
    /\ UNCHANGED <<sysVars, regVars, address, message, bVars, envVars>>

\* add_client: with self.lock: if address not in self.clients: add it
AddClientEnter ==
    /\ lpc = "add1"
    /\ lock = "free"
    /\ lock' = "listener"
    /\ clients' = clients \cup {address}
    /\ lpc' = "add2"
    /\ wire' = NoDatagram
    /\ UNCHANGED <<sysVars, client_last_seen, address, message, bVars,
                   envVars>>

\* Mutant of AddClientStamp: the timestamp is set inside the `if`, so only
\* for an endpoint that was not registered.
AddClientStamp_OnlyNew ==
    /\ lpc = "add2"
    /\ client_last_seen' = IF address \in DOMAIN client_last_seen
                           THEN client_last_seen
                           ELSE Stamped(client_last_seen, address, now)
    /\ lock' = "free"
    /\ lpc' = "ack"
    /\ wire' = NoDatagram
    /\ UNCHANGED <<sysVars, clients, address, message, bVars, envVars>>

\* add_client: self.client_last_seen[address] = time.time(); release
AddClientStamp ==
    /\ lpc = "add2"
    /\ client_last_seen' = Stamped(client_last_seen, address, now)
    /\ lock' = "free"
    /\ lpc' = "ack"
    /\ wire' = NoDatagram
    /\ UNCHANGED <<sysVars, clients, address, message, bVars, envVars>>

\* self.socket.sendto(b'ACK', address): sent, or an exception caught by the
\* loop's `except Exception` (always, once the socket is closed).
SendAck(ok) ==
    /\ lpc = "ack"
    /\ ok => sockOpen
    /\ lpc' = "while"
    /\ address' = NoAddr
    /\ message' = NoMessage
    /\ wire' = IF ok THEN Datagram(address, AckMessage) ELSE NoDatagram
    /\ UNCHANGED <<sysVars, regVars, bVars, envVars>>

\* Mutant of DisconnectDiscard: the discard from self.clients is left out.
DisconnectDiscard_Forget ==
    /\ lpc = "disc1"
    /\ lock = "free"
    /\ lock' = "listener"
    /\ clients' = clients
    /\ lpc' = "disc2"
    /\ wire' = NoDatagram
    /\ UNCHANGED <<sysVars, client_last_seen, address, message, bVars,
                   envVars>>

\* DISCONNECT: with self.lock: self.clients.discard(address)
DisconnectDiscard ==
    /\ lpc = "disc1"
    /\ lock = "free"
    /\ lock' = "listener"
    /\ clients' = clients \ {address}
    /\ lpc' = "disc2"
    /\ wire' = NoDatagram
    /\ UNCHANGED <<sysVars, client_last_seen, address, message, bVars,
                   envVars>>

\* Mutant of DisconnectPop: self.client_last_seen.clear() in place of pop.
DisconnectPop_Clear ==
    /\ lpc = "disc2"
    /\ client_last_seen' = EmptyMap
    /\ lock' = "free"
    /\ lpc' = "while"
    /\ address' = NoAddr
    /\ message' = NoMessage
    /\ wire' = NoDatagram
    /\ UNCHANGED <<sysVars, clients, bVars, envVars>>

\* DISCONNECT: self.client_last_seen.pop(address, None); release; log
DisconnectPop ==
    /\ lpc = "disc2"
    /\ client_last_seen' = Without(client_last_seen, {address})
    /\ lock' = "free"
    /\ lpc' = "while"
    /\ address' = NoAddr
    /\ message' = NoMessage
    /\ wire' = NoDatagram
    /\ UNCHANGED <<sysVars, clients, bVars, envVars>>

\* --------------------------------------------------------- broadcaster
\* Mutant of AfterLoad: with no lines broadcast_lines returns, and main()
\* goes on to stop().
AfterLoad_Exit(loaded) == IF loaded = <<>> THEN "stopping" ELSE "for"

\* if not lines: warn, sleep and load again; else go through the lines.
AfterLoad(loaded) == IF loaded = <<>> THEN "wait" ELSE "for"

\* while self.running: lines = self.read_file_lines(); if not lines: ...
LoadLines ==
    /\ bpc = "while"
    /\ IF ~running
       THEN /\ bpc' = "stopping"
            /\ UNCHANGED <<lines, idx>>
       ELSE LET loaded == read_file_lines(file)
            IN  /\ lines' = loaded
                /\ idx' = IF loaded = <<>> THEN 0 ELSE 1
                /\ bpc' = AfterLoad(loaded)
    /\ wire' = NoDatagram
    /\ UNCHANGED <<sysVars, regVars, lVars, current_time, stale_clients,
                   clients_copy, todo, client_address, envVars>>

\* logger.warning("No lines to broadcast, waiting..."); sleep; continue
WaitForLines ==
    /\ bpc = "wait"
    /\ bpc' = "while"
    /\ wire' = NoDatagram
    /\ UNCHANGED <<sysVars, regVars, lVars, lines, idx, current_time,
                   stale_clients, clients_copy, todo, client_address,
                   envVars>>

\* Mutant of TickBegin: the call of remove_stale_clients is left out.
TickBegin_SkipReap ==
    /\ bpc = "for"
    /\ IF ~running
       THEN /\ bpc' = "while"
            /\ idx' = 0
            /\ lines' = <<>>
       ELSE /\ bpc' = "snap"
            /\ UNCHANGED <<idx, lines>>
    /\ wire' = NoDatagram
    /\ UNCHANGED <<sysVars, regVars, lVars, current_time, stale_clients,
                   clients_copy, todo, client_address, envVars>>

\* for line in lines: if not self.running: break; then
\* remove_stale_clients reads current_time = time.time()
TickBegin ==
    /\ bpc = "for"
    /\ IF ~running
       THEN /\ bpc' = "while"
            /\ idx' = 0
            /\ lines' = <<>>
            /\ UNCHANGED current_time
       ELSE /\ bpc' = "reap1"
            /\ current_time' = now
            /\ UNCHANGED <<idx, lines>>
    /\ wire' = NoDatagram
    /\ UNCHANGED <<sysVars, regVars, lVars, stale_clients, clients_copy,
                   todo, client_address, envVars>>

\* Mutant of StaleAt: the comparison with the timeout is not strict.
StaleAt_Inclusive(t, last_seen) ==
    {addr \in DOMAIN last_seen : t - last_seen[addr] >= HEARTBEAT_TIMEOUT}

\* The endpoints remove_stale_clients selects at time t.
StaleAt(t, last_seen) ==
    {addr \in DOMAIN last_seen : t - last_seen[addr] > HEARTBEAT_TIMEOUT}

\* remove_stale_clients: with self.lock: stale_clients = [...]
ReapSelect ==
    /\ bpc = "reap1"
    /\ lock = "free"
    /\ lock' = "broadcaster"
    /\ stale_clients' = StaleAt(current_time, client_last_seen)
    /\ bpc' = "reap2"
    /\ wire' = NoDatagram
    /\ UNCHANGED <<sysVars, clients, client_last_seen, lVars, lines, idx,
                   current_time, clients_copy, todo, client_address,
                   envVars>>

\* remove_stale_clients: for addr in stale_clients: discard, del; release
ReapRemove ==
    /\ bpc = "reap2"
    /\ clients' = clients \ stale_clients
    /\ client_last_seen' = Without(client_last_seen, stale_clients)
    /\ lock' = "free"
    /\ stale_clients' = {}
    /\ bpc' = "snap"
    /\ wire' = NoDatagram
    /\ UNCHANGED <<sysVars, lVars, lines, idx, current_time, clients_copy,
                   todo, client_address, envVars>>

\* Mutant of AfterSnapshot: with no client the for loop over the lines is
\* left (break) and the traversal starts over.
AfterSnapshot_Abort(client_count) ==
    IF client_count = 0 THEN "while" ELSE "send"

\* if client_count == 0: skip the broadcast; else send to the snapshot.
AfterSnapshot(client_count) == IF client_count = 0 THEN "sleep" ELSE "send"

\* Mutant of Snapshot: the for loop over clients_copy is inside the `with
\* self.lock` block.
Snapshot_HoldLock ==
    /\ bpc = "snap"
    /\ lock = "free"
    /\ lock' = "broadcaster"
    /\ clients_copy' = clients
    /\ todo' = clients
    /\ current_time' = 0
    /\ bpc' = AfterSnapshot(Cardinality(clients))
    /\ wire' = NoDatagram
    /\ UNCHANGED <<sysVars, clients, client_last_seen, lVars, lines, idx,
                   stale_clients, client_address, envVars>>

\* with self.lock: client_count = len(self.clients);
\* clients_copy = self.clients.copy(); then if client_count == 0: skip
Snapshot ==
    /\ bpc = "snap"
    /\ lock = "free"
    /\ clients_copy' = clients
    /\ todo' = clients
    /\ current_time' = 0
    /\ bpc' = AfterSnapshot(Cardinality(clients))
    /\ wire' = NoDatagram
    /\ UNCHANGED <<sysVars, regVars, lVars, lines, idx, stale_clients,
                   client_address, envVars>>

\* Where the tick goes once a client of the snapshot has been dealt with.
AfterClient(rest) == IF rest = {} THEN "sleep" ELSE "send"

\* for client_address in clients_copy: self.socket.sendto(message, ...)
SendLine(client) ==
    /\ bpc = "send"
    /\ client \in todo
    /\ todo' = todo \ {client}
    /\ bpc' = AfterClient(todo')
    /\ wire' = Datagram(client, DataMessage(lines[idx]))
    /\ UNCHANGED <<sysVars, regVars, lVars, lines, idx, current_time,
                   stale_clients, clients_copy, client_address, envVars>>

\* Mutant of SendFails: the try block is around the for loop, so the
\* exception ends the iteration over the snapshot.
SendFails_Abort(client) ==
    /\ bpc = "send"
    /\ client \in todo
    /\ todo' = {}
    /\ client_address' = client
    /\ bpc' = "evict1"
    /\ wire' = NoDatagram
    /\ UNCHANGED <<sysVars, regVars, lVars, lines, idx, current_time,
                   stale_clients, clients_copy, envVars>>

\* sendto raises: except Exception as e: logger.error(...)
SendFails(client) ==
    /\ bpc = "send"
    /\ client \in todo
    /\ todo' = todo \ {client}
    /\ client_address' = client
    /\ bpc' = "evict1"
    /\ wire' = NoDatagram
    /\ UNCHANGED <<sysVars, regVars, lVars, lines, idx, current_time,
                   stale_clients, clients_copy, envVars>>

\* with self.lock: self.clients.discard(client_address)
EvictDiscard ==
    /\ bpc = "evict1"
    /\ lock = "free"
    /\ lock' = "broadcaster"
    /\ clients' = clients \ {client_address}
    /\ bpc' = "evict2"
    /\ wire' = NoDatagram
    /\ UNCHANGED <<sysVars, client_last_seen, lVars, lines, idx,
                   current_time, stale_clients, clients_copy, todo,
                   client_address, envVars>>

\* self.client_last_seen.pop(client_address, None); release
EvictPop ==
    /\ bpc = "evict2"
    /\ client_last_seen' = Without(client_last_seen, {client_address})
    /\ lock' = "free"
    /\ client_address' = NoAddr
    /\ bpc' = AfterClient(todo)
    /\ wire' = NoDatagram
    /\ UNCHANGED <<sysVars, clients, lVars, lines, idx, current_time,
                   stale_clients, clients_copy, todo, envVars>>

\* Mutant of Sleep: the file is read again after every line.
Sleep_Reload ==
    /\ bpc = "sleep"
    /\ IF idx < Len(read_file_lines(file))
       THEN /\ idx' = idx + 1
            /\ bpc' = "for"
            /\ lines' = read_file_lines(file)
       ELSE /\ idx' = 0
            /\ bpc' = "while"
            /\ lines' = <<>>
    /\ clients_copy' = {}
    /\ wire' = NoDatagram
    /\ UNCHANGED <<sysVars, regVars, lVars, current_time, stale_clients,
                   todo, client_address, envVars>>

\* Mutant of Sleep: the loop does not move on to the next line.
Sleep_NoAdvance ==
    /\ bpc = "sleep"
    /\ IF idx < Len(lines)
       THEN /\ idx' = idx
            /\ bpc' = "for"
            /\ UNCHANGED lines
       ELSE /\ idx' = 0
            /\ bpc' = "while"
            /\ lines' = <<>>
    /\ clients_copy' = {}
    /\ wire' = NoDatagram
    /\ UNCHANGED <<sysVars, regVars, lVars, current_time, stale_clients,
                   todo, client_address, envVars>>

\* time.sleep(BROADCAST_INTERVAL), then the next line, or the next traversal
\* after the last one.
Sleep ==
    /\ bpc = "sleep"
    /\ IF idx < Len(lines)
       THEN /\ idx' = idx + 1
            /\ bpc' = "for"
            /\ UNCHANGED lines
       ELSE /\ idx' = 0
            /\ bpc' = "while"
            /\ lines' = <<>>
    /\ clients_copy' = {}
    /\ wire' = NoDatagram
    /\ UNCHANGED <<sysVars, regVars, lVars, current_time, stale_clients,
                   todo, client_address, envVars>>

\* --------------------------------------------------------- environment
\* The wall clock advances to reading t.
Tick(t) ==
    /\ t > now
    /\ now' = t
    /\ wire' = NoDatagram
    /\ UNCHANGED <<sysVars, regVars, lVars, bVars, file>>

\* Somebody edits, removes or protects the payload file.
EditFile ==
    /\ file' \in FileStates \ {file}
    /\ wire' = NoDatagram
    /\ UNCHANGED <<sysVars, regVars, lVars, bVars, now>>


\* -------------------------------------------------------------- client
\* UDPClient of src/client.py at ClientEndpoint: its main thread (start,
\* receive_data, stop) and its heartbeat thread. What it receives from the
\* server changes nothing in it and is left out.
ClientEndpoint == CHOOSE e \in Endpoints : TRUE

\* start(): create the socket, sendto CONNECT, set running, spawn the
\* heartbeat thread and enter receive_data; when sendto raises, main()
\* goes on to stop().
ClientStart(ok) ==
    /\ cpc = "init"
    /\ c_sockOpen' = TRUE
    /\ IF ok
       THEN /\ net' = Append(net, <<"CONNECT">>)
            /\ c_running' = TRUE
            /\ hpc' = "while"
            /\ cpc' = "receive"
       ELSE /\ cpc' = "stopping"
            /\ UNCHANGED <<net, c_running, hpc>>
    /\ UNCHANGED <<wake, now>>

\* KeyboardInterrupt in receive_data: main() goes on to stop().
ClientInterrupt ==
    /\ cpc = "receive"
    /\ cpc' = "stopping"
    /\ UNCHANGED <<c_running, c_sockOpen, hpc, wake, net, now>>

\* stop(): self.socket.sendto(b'DISCONNECT', self.server_address)
ClientDisconnect ==
    /\ cpc = "stopping"
    /\ net' = IF c_sockOpen THEN Append(net, <<"DISCONNECT">>) ELSE net
    /\ cpc' = "flag"
    /\ UNCHANGED <<c_running, c_sockOpen, hpc, wake, now>>

\* stop(): self.running = False
ClientClearRunning ==
    /\ cpc = "flag"
    /\ c_running' = FALSE
    /\ cpc' = "close"
    /\ UNCHANGED <<c_sockOpen, hpc, wake, net, now>>

\* stop(): self.socket.close()
ClientClose ==
    /\ cpc = "close"
    /\ c_sockOpen' = FALSE
    /\ cpc' = "done"
    /\ UNCHANGED <<c_running, hpc, wake, net, now>>

\* main() returns; the heartbeat thread, a daemon thread, ends with it.
ClientExit ==
    /\ cpc = "done"
    /\ cpc' = "exited"
    /\ hpc' = IF hpc \in {"unborn", "done"} THEN hpc ELSE "killed"
    /\ UNCHANGED <<c_running, c_sockOpen, wake, net, now>>

\* send_heartbeat: while self.running:
HeartbeatLoop ==
    /\ hpc = "while"
    /\ hpc' = IF c_running THEN "send" ELSE "done"
    /\ UNCHANGED <<c_running, c_sockOpen, cpc, wake, net, now>>

\* Mutant of HeartbeatSend: the sleep is four intervals long.
HeartbeatSend_Slow ==
    /\ hpc = "send"
    /\ net' = IF c_sockOpen THEN Append(net, <<"HEARTBEAT">>) ELSE net
    /\ wake' = now + 4 * HEARTBEAT_INTERVAL
    /\ hpc' = "sleep"
    /\ UNCHANGED <<c_running, c_sockOpen, cpc, now>>

\* send_heartbeat: sendto HEARTBEAT (an exception, as on a closed socket,
\* is logged), then time.sleep(HEARTBEAT_INTERVAL) begins.
HeartbeatSend ==
    /\ hpc = "send"
    /\ net' = IF c_sockOpen THEN Append(net, <<"HEARTBEAT">>) ELSE net
    /\ wake' = now + HEARTBEAT_INTERVAL
    /\ hpc' = "sleep"
    /\ UNCHANGED <<c_running, c_sockOpen, cpc, now>>

\* send_heartbeat: time.sleep returns.
HeartbeatWake ==
    /\ hpc = "sleep"
    /\ now >= wake
    /\ hpc' = "while"
    /\ UNCHANGED <<c_running, c_sockOpen, cpc, wake, net, now>>

\* The clock advances by ClockStep, or up to the end of the heartbeat
\* thread's sleep if that comes first. Nothing is late: the clock stands
\* while a datagram is on its way or being handled, and while the heartbeat
\* thread is due.
Advance ==
    /\ now < Horizon
    /\ net = <<>>
    /\ lpc \notin {"add1", "add2", "ack", "disc1", "disc2"}
    /\ hpc \in {"unborn", "done", "killed"} \/ (hpc = "sleep" /\ now < wake)
    /\ now' = IF hpc = "sleep" /\ wake < now + ClockStep
              THEN wake ELSE now + ClockStep
    /\ UNCHANGED clientVars

\* ------------------------------------------------------------- history
\* What a step did, read off the positions it moved between.
Registered(e) == lpc = "add2" /\ lpc' = "ack" /\ address = e

Disconnected(e) == lpc = "disc1" /\ lpc' = "disc2" /\ address = e

Reaped(e) == bpc = "reap2" /\ bpc' = "snap" /\ e \in clients \ clients'

Evicted(e) == bpc = "evict1" /\ bpc' = "evict2" /\ e \in clients \ clients'

Loaded == bpc = "while" /\ bpc' \in {"for", "wait"}

SnapshotTaken == bpc = "snap" /\ bpc' \in {"send", "sleep"}

LineSentTo(e) == bpc = "send" /\ bpc' # "evict1" /\ e \in todo \ todo'

SendRaisedFor(e) == bpc = "send" /\ bpc' = "evict1" /\ client_address' = e

Slept == bpc = "sleep" /\ bpc' \in {"for", "while"}

\* Keeps regTime, gone and refreshed.
RegObserver ==
    /\ refreshed' = IF Registered(address)
                    THEN IF address \in DOMAIN client_last_seen
                         THEN client_last_seen[address] ELSE NoTime
                    ELSE IF lpc' = "ack" THEN refreshed ELSE NoTime
    /\ regTime' = [e \in Endpoints |->
                      IF Registered(e) THEN now
                      ELSE IF Disconnected(e) THEN NoTime
                      ELSE regTime[e]]
    /\ gone' = [e \in Endpoints |->
                   IF Registered(e) \/ Disconnected(e) THEN "no"
                   ELSE IF Reaped(e) THEN "reap"
                   ELSE IF Evicted(e) THEN "send"
                   ELSE gone[e]]

\* Keeps delivered, failed, steady and sentLog.
TxObserver ==
    /\ delivered' = IF SnapshotTaken \/ Slept THEN {}
                    ELSE delivered \cup {e \in Endpoints : LineSentTo(e)}
    /\ failed' = IF SnapshotTaken \/ Slept THEN {}
                 ELSE failed \cup {e \in Endpoints : SendRaisedFor(e)}
    /\ steady' = [e \in Endpoints |->
                     IF Loaded THEN bpc' = "for" /\ e \in clients
                     ELSE steady[e] /\ e \notin clients \ clients']
    /\ sentLog' = [e \in Endpoints |->
                      IF Loaded \/ ~steady'[e] THEN <<>>
                      ELSE IF LineSentTo(e) THEN Append(sentLog[e], wire'.data)
                      ELSE sentLog[e]]

\* The processing of a DISCONNECT from e is complete and no registration
\* of e has followed it.
Departed(e) ==
    /\ regTime[e] = NoTime
    /\ gone[e] = "no"
    /\ ~(lpc \in {"disc1", "disc2"} /\ address = e)

\* Keeps late.
LateObserver ==
    late' = [e \in Endpoints |->
                IF Registered(e) THEN 0
                ELSE IF LineSentTo(e) /\ Departed(e) /\ late[e] < MaxLate
                     THEN late[e] + 1
                ELSE late[e]]

\* An ACK goes out to endpoint e.
Acked(e) == lpc = "ack" /\ wire' = Datagram(e, AckMessage)

\* Keeps renewed.
RaceObserver ==
    renewed' = IF bpc' \notin {"evict1", "evict2"} THEN "no"
               ELSE IF bpc \notin {"evict1", "evict2"} THEN "no"
               ELSE IF bpc = "evict1" /\ Registered(client_address)
                    THEN "registered"
               ELSE IF renewed = "registered" /\ Acked(client_address)
                    THEN "acked"
               ELSE renewed

\* The listener's positions inside the handling of a datagram.
Handling == {"add1", "add2", "ack", "disc1", "disc2"}

\* A step that received no datagram.
Quiet == heard' = IF lpc' \in Handling THEN heard ELSE NoDatagram

\* --------------------------------------------------------------- specs
\* The program with its whole environment, no history kept.
P(A) == A /\ Quiet /\ UNCHANGED <<regHist, txHist, raceHist, clientVars>>

Next ==
    \/ \E bindOk \in BOOLEAN : P(Start(bindOk))
    \/ P(Interrupt)
    \/ P(Stop)
    \/ P(CloseSocket)
    \/ P(ListenLoop)
    \/ \E sender \in Endpoints, data \in Datagrams : P(Receive(sender, data))
    \/ P(ReceiveTimeout)
    \/ P(ReceiveError)
    \/ P(AddClientEnter)
    \/ P(AddClientStamp)
    \/ \E ok \in BOOLEAN : P(SendAck(ok))
    \/ P(DisconnectDiscard)
    \/ P(DisconnectPop)
    \/ P(LoadLines)
    \/ P(WaitForLines)
    \/ P(TickBegin)
    \/ P(ReapSelect)
    \/ P(ReapRemove)
    \/ P(Snapshot)
    \/ \E client \in Endpoints : P(SendLine(client))
    \/ \E client \in Endpoints : P(SendFails(client))
    \/ P(EvictDiscard)
    \/ P(EvictPop)
    \/ P(Sleep)
    \/ \E t \in Instants : P(Tick(t))
    \/ P(EditFile)
    \/ P(Exit)

Spec == Init /\ [][Next]_vars

\* The registry against the clock: the payload file is one line that nobody
\* edits, and the history of registrations is kept.
OneLineFile ==
    [exists |-> TRUE, readable |-> TRUE, content |-> << <<"a", "\r", "\n">> >>]

InitRegistry == Init /\ file = OneLineFile

R(A) ==
    A /\ Quiet /\ RegObserver /\ UNCHANGED <<txHist, raceHist, clientVars>>

NextRegistry ==
    \/ \E bindOk \in BOOLEAN : R(Start(bindOk))
    \/ R(Interrupt)
    \/ R(Stop)
    \/ R(CloseSocket)
    \/ R(ListenLoop)
    \/ \E sender \in Endpoints, data \in PlainDatagrams :
          R(Receive(sender, data))
    \/ R(ReceiveTimeout)
    \/ R(ReceiveError)
    \/ R(AddClientEnter)
    \/ R(AddClientStamp)
    \/ \E ok \in BOOLEAN : R(SendAck(ok))
    \/ R(DisconnectDiscard)
    \/ R(DisconnectPop)
    \/ R(LoadLines)
    \/ R(TickBegin)
    \/ R(ReapSelect)
    \/ R(ReapRemove)
    \/ R(Snapshot)
    \/ \E client \in Endpoints : R(SendLine(client))
    \/ \E client \in Endpoints : R(SendFails(client))
    \/ R(EvictDiscard)
    \/ R(EvictPop)
    \/ R(Sleep)
    \/ \E t \in Instants : R(Tick(t))

SpecRegistry == InitRegistry /\ [][NextRegistry]_vars


\* The listener against every datagram: what it received is kept with the
\* history of registrations, the clock makes one jump past the timeout, and
\* no sendto of the broadcaster fails.
L(A) ==
    A /\ Quiet /\ RegObserver /\ UNCHANGED <<txHist, raceHist, clientVars>>

Hearing(sender, data) ==
    /\ Receive(sender, data)
    /\ heard' = Datagram(sender, data)
    /\ RegObserver
    /\ UNCHANGED <<txHist, raceHist, clientVars>>

NextListener ==
    \/ \E bindOk \in BOOLEAN : L(Start(bindOk))
    \/ L(Interrupt)
    \/ L(Stop)
    \/ L(CloseSocket)
    \/ L(ListenLoop)
    \/ \E sender \in Endpoints, data \in Datagrams : Hearing(sender, data)
    \/ L(ReceiveTimeout)
    \/ L(ReceiveError)
    \/ L(AddClientEnter)
    \/ L(AddClientStamp)
    \/ \E ok \in BOOLEAN : L(SendAck(ok))
    \/ L(DisconnectDiscard)
    \/ L(DisconnectPop)
    \/ L(LoadLines)
    \/ L(TickBegin)
    \/ L(ReapSelect)
    \/ L(ReapRemove)
    \/ L(Snapshot)
    \/ \E client \in Endpoints : L(SendLine(client))
    \/ L(Sleep)
    \/ L(Tick(LastInstant))

SpecListener == InitRegistry /\ [][NextListener]_vars

\* The broadcaster over a payload file in any state, which nobody edits:
\* the history of transmissions is kept, and the clock makes one jump past
\* the timeout.
B(A) ==
    A /\ Quiet /\ TxObserver /\ UNCHANGED <<regHist, raceHist, clientVars>>

NextBroadcast ==
    \/ \E bindOk \in BOOLEAN : B(Start(bindOk))
    \/ B(Interrupt)
    \/ B(Stop)
    \/ B(CloseSocket)
    \/ B(ListenLoop)
    \/ \E sender \in Endpoints, data \in PlainDatagrams :
          B(Receive(sender, data))
    \/ B(ReceiveTimeout)
    \/ B(ReceiveError)
    \/ B(AddClientEnter)
    \/ B(AddClientStamp)
    \/ \E ok \in BOOLEAN : B(SendAck(ok))
    \/ B(DisconnectDiscard)
    \/ B(DisconnectPop)
    \/ B(LoadLines)
    \/ B(WaitForLines)
    \/ B(TickBegin)
    \/ B(ReapSelect)
    \/ B(ReapRemove)
    \/ B(Snapshot)
    \/ \E client \in Endpoints : B(SendLine(client))
    \/ \E client \in Endpoints : B(SendFails(client))
    \/ B(EvictDiscard)
    \/ B(EvictPop)
    \/ B(Sleep)
    \/ B(Tick(LastInstant))

SpecBroadcast == Init /\ [][NextBroadcast]_vars


\* The broadcaster against a payload file that is edited at any moment,
\* with one subscriber and a clock that stands still.
S(A) ==
    A /\ Quiet /\ TxObserver /\ UNCHANGED <<regHist, raceHist, clientVars>>

OneSubscriber == {CHOOSE e \in Endpoints : TRUE}

NextSource ==
    \/ \E bindOk \in BOOLEAN : S(Start(bindOk))
    \/ S(Interrupt)
    \/ S(Stop)
    \/ S(CloseSocket)
    \/ S(ListenLoop)
    \/ \E sender \in OneSubscriber, data \in PlainDatagrams :
          S(Receive(sender, data))
    \/ S(ReceiveTimeout)
    \/ S(ReceiveError)
    \/ S(AddClientEnter)
    \/ S(AddClientStamp)
    \/ \E ok \in BOOLEAN : S(SendAck(ok))
    \/ S(DisconnectDiscard)
    \/ S(DisconnectPop)
    \/ S(LoadLines)
    \/ S(WaitForLines)
    \/ S(TickBegin)
    \/ S(ReapSelect)
    \/ S(ReapRemove)
    \/ S(Snapshot)
    \/ \E client \in Endpoints : S(SendLine(client))
    \/ \E client \in Endpoints : S(SendFails(client))
    \/ S(EvictDiscard)
    \/ S(EvictPop)
    \/ S(Sleep)
    \/ S(EditFile)

SpecSource == Init /\ [][NextSource]_vars


\* The life of the process, from construction to exit, with one subscriber,
\* a payload file in any state that nobody edits and a clock that stands
\* still. Once main() is in its finally clause the main thread runs on to
\* the exit.
NextLifecycle ==
    \/ \E bindOk \in BOOLEAN : P(Start(bindOk))
    \/ P(Interrupt)
    \/ P(Stop)
    \/ P(CloseSocket)
    \/ P(Exit)
    \/ P(ListenLoop)
    \/ \E sender \in OneSubscriber, data \in PlainDatagrams :
          P(Receive(sender, data))
    \/ P(ReceiveTimeout)
    \/ P(ReceiveError)
    \/ P(AddClientEnter)
    \/ P(AddClientStamp)
    \/ \E ok \in BOOLEAN : P(SendAck(ok))
    \/ P(DisconnectDiscard)
    \/ P(DisconnectPop)
    \/ P(LoadLines)
    \/ P(WaitForLines)
    \/ P(TickBegin)
    \/ P(ReapSelect)
    \/ P(ReapRemove)
    \/ P(Snapshot)
    \/ \E client \in Endpoints : P(SendLine(client))
    \/ \E client \in Endpoints : P(SendFails(client))
    \/ P(EvictDiscard)
    \/ P(EvictPop)
    \/ P(Sleep)

Shutdown == P(Stop) \/ P(CloseSocket) \/ P(Exit)

SpecLifecycle == Init /\ [][NextLifecycle]_vars /\ WF_vars(Shutdown)


\* The reaper against a payload file in any state that nobody edits, with
\* one subscriber and a clock that makes one jump past the timeout. The
\* main thread keeps running: each of its steps that stays possible is
\* taken, and it gets the lock when the lock is free again and again; the
\* listener leaves a `with self.lock` block it has entered.
NextReaping ==
    \/ \E bindOk \in BOOLEAN : R(Start(bindOk))
    \/ R(Interrupt)
    \/ R(Stop)
    \/ R(CloseSocket)
    \/ R(ListenLoop)
    \/ \E sender \in OneSubscriber, data \in PlainDatagrams :
          R(Receive(sender, data))
    \/ R(ReceiveTimeout)
    \/ R(ReceiveError)
    \/ R(AddClientEnter)
    \/ R(AddClientStamp)
    \/ \E ok \in BOOLEAN : R(SendAck(ok))
    \/ R(DisconnectDiscard)
    \/ R(DisconnectPop)
    \/ R(LoadLines)
    \/ R(WaitForLines)
    \/ R(TickBegin)
    \/ R(ReapSelect)
    \/ R(ReapRemove)
    \/ R(Snapshot)
    \/ \E client \in Endpoints : R(SendLine(client))
    \/ \E client \in Endpoints : R(SendFails(client))
    \/ R(EvictDiscard)
    \/ R(EvictPop)
    \/ R(Sleep)
    \/ R(Tick(LastInstant))

BroadcasterStep ==
    \/ R(LoadLines)
    \/ R(WaitForLines)
    \/ R(TickBegin)
    \/ R(ReapSelect)
    \/ R(ReapRemove)
    \/ R(Snapshot)
    \/ \E client \in Endpoints : R(SendLine(client))
    \/ \E client \in Endpoints : R(SendFails(client))
    \/ R(EvictDiscard)
    \/ R(EvictPop)
    \/ R(Sleep)

SpecReaping ==
    /\ Init
    /\ [][NextReaping]_vars
    /\ WF_vars(BroadcasterStep)
    /\ WF_vars(R(AddClientStamp) \/ R(DisconnectPop))
    /\ SF_vars(R(ReapSelect))
    /\ SF_vars(R(Snapshot))
    /\ SF_vars(R(EvictDiscard))


\* Departures against the broadcast: two subscribers, a payload file of one
\* line that nobody edits and a clock that stands still; the history of
\* registrations is kept and the lines sent after a DISCONNECT are counted.
D(A) ==
    /\ A /\ Quiet /\ RegObserver /\ LateObserver
    /\ UNCHANGED <<txHist, renewed, clientVars>>

NextDeparture ==
    \/ \E bindOk \in BOOLEAN : D(Start(bindOk))
    \/ D(Interrupt)
    \/ D(Stop)
    \/ D(CloseSocket)
    \/ D(ListenLoop)
    \/ \E sender \in Endpoints, data \in PlainDatagrams :
          D(Receive(sender, data))
    \/ D(ReceiveTimeout)
    \/ D(ReceiveError)
    \/ D(AddClientEnter)
    \/ D(AddClientStamp)
    \/ \E ok \in BOOLEAN : D(SendAck(ok))
    \/ D(DisconnectDiscard)
    \/ D(DisconnectPop)
    \/ D(LoadLines)
    \/ D(TickBegin)
    \/ D(ReapSelect)
    \/ D(ReapRemove)
    \/ D(Snapshot)
    \/ \E client \in Endpoints : D(SendLine(client))
    \/ \E client \in Endpoints : D(SendFails(client))
    \/ D(EvictDiscard)
    \/ D(EvictPop)
    \/ D(Sleep)

SpecDeparture == InitRegistry /\ [][NextDeparture]_vars


\* Eviction against registration: two subscribers, a payload file of one
\* line that nobody edits and a clock that stands still; what the listener
\* acknowledges between a failed sendto and its handler is kept.
E(A) ==
    /\ A /\ Quiet /\ RaceObserver
    /\ UNCHANGED <<regHist, txHist, late, clientVars>>

NextEviction ==
    \/ \E bindOk \in BOOLEAN : E(Start(bindOk))
    \/ E(Interrupt)
    \/ E(Stop)
    \/ E(CloseSocket)
    \/ E(ListenLoop)
    \/ \E sender \in Endpoints, data \in PlainDatagrams :
          E(Receive(sender, data))
    \/ E(ReceiveTimeout)
    \/ E(ReceiveError)
    \/ E(AddClientEnter)
    \/ E(AddClientStamp)
    \/ \E ok \in BOOLEAN : E(SendAck(ok))
    \/ E(DisconnectDiscard)
    \/ E(DisconnectPop)
    \/ E(LoadLines)
    \/ E(TickBegin)
    \/ E(ReapSelect)
    \/ E(ReapRemove)
    \/ E(Snapshot)
    \/ \E client \in Endpoints : E(SendLine(client))
    \/ \E client \in Endpoints : E(SendFails(client))
    \/ E(EvictDiscard)
    \/ E(EvictPop)
    \/ E(Sleep)

SpecEviction == InitRegistry /\ [][NextEviction]_vars


\* The client with the server: the client's datagrams reach the listener
\* in order and none is lost, the payload file is one line that nobody
\* edits, no sendto of the server fails and the server is not interrupted;
\* the history of registrations is kept.
C(A) ==
    /\ A /\ Quiet /\ RegObserver
    /\ UNCHANGED <<txHist, raceHist, c_running, c_sockOpen, cpc, hpc, wake>>

\* A step of the client or of the clock.
K(A) ==
    /\ A
    /\ wire' = NoDatagram
    /\ UNCHANGED <<sysVars, regVars, lVars, bVars, file, heard, regHist,
                   txHist, raceHist>>

\* recvfrom returns the oldest datagram the client has sent.
Deliver ==
    /\ net # <<>>
    /\ C(Receive(ClientEndpoint, Head(net)))
    /\ net' = Tail(net)

NextClient ==
    \/ \E bindOk \in BOOLEAN : C(Start(bindOk)) /\ UNCHANGED net
    \/ C(ListenLoop) /\ UNCHANGED net
    \/ Deliver
    \/ C(ReceiveTimeout) /\ UNCHANGED net
    \/ C(AddClientEnter) /\ UNCHANGED net
    \/ C(AddClientStamp) /\ UNCHANGED net
    \/ \E ok \in BOOLEAN : C(SendAck(ok)) /\ UNCHANGED net
    \/ C(DisconnectDiscard) /\ UNCHANGED net
    \/ C(DisconnectPop) /\ UNCHANGED net
    \/ C(LoadLines) /\ UNCHANGED net
    \/ C(TickBegin) /\ UNCHANGED net
    \/ C(ReapSelect) /\ UNCHANGED net
    \/ C(ReapRemove) /\ UNCHANGED net
    \/ C(Snapshot) /\ UNCHANGED net
    \/ \E client \in Endpoints : C(SendLine(client)) /\ UNCHANGED net
    \/ C(Sleep) /\ UNCHANGED net
    \/ \E ok \in BOOLEAN : K(ClientStart(ok))
    \/ K(ClientInterrupt)
    \/ K(ClientDisconnect)
    \/ K(ClientClearRunning)
    \/ K(ClientClose)
    \/ K(ClientExit)
    \/ K(HeartbeatLoop)
    \/ K(HeartbeatSend)
    \/ K(HeartbeatWake)
    \/ K(Advance)

SpecClient == InitRegistry /\ [][NextClient]_vars


\* -------------------------------------------------------------- claims
\* What the claims say of a datagram, stated on its bytes.
SaysRegister(data) ==
    /\ \A i \in 1..Len(data) : data[i] # BadBytes
    /\ Strip(data) \in {<<"CONNECT">>, <<"HEARTBEAT">>}

SaysDisconnect(data) ==
    /\ \A i \in 1..Len(data) : data[i] # BadBytes
    /\ Strip(data) = <<"DISCONNECT">>

\* The endpoints whose latest CONNECT/HEARTBEAT was processed within the
\* timeout of the current time, with no DISCONNECT since.
ActiveByMessages ==
    {e \in Endpoints :
        regTime[e] # NoTime /\ now - regTime[e] <= HEARTBEAT_TIMEOUT}

\* C1 as stated: whenever the registry can be observed (the lock is free),
\* it equals exactly the endpoints whose latest CONNECT/HEARTBEAT was
\* processed within HEARTBEAT_TIMEOUT of now, with no DISCONNECT since.
C1_AsStated ==
    lock = "free" =>
        /\ clients = ActiveByMessages
        /\ DOMAIN client_last_seen = ActiveByMessages

\* C1 amended: whenever the lock is free, the registry equals exactly the
\* endpoints whose latest CONNECT/HEARTBEAT was followed neither by a
\* DISCONNECT, nor by a reap pass that removed the record, nor by a
\* send-failure eviction; each record holds the processing time of that
\* message; and a reap pass removes only records older than the timeout. A
\* record that ages past the timeout stays until the next reap pass.
C1_Registry ==
    lock = "free" =>
        /\ clients = {e \in Endpoints : regTime[e] # NoTime /\ gone[e] = "no"}
        /\ \A e \in clients :
              /\ e \in DOMAIN client_last_seen
              /\ client_last_seen[e] = regTime[e]
        /\ \A e \in Endpoints :
              gone[e] = "reap" => now - regTime[e] > HEARTBEAT_TIMEOUT

\* A record older than the timeout that is still in the registry.
C1_Witness ==
    /\ lock = "free"
    /\ \E e \in clients : now - regTime[e] > HEARTBEAT_TIMEOUT
    /\ \E e \in Endpoints : gone[e] = "send"


\* The step that completes a reap pass.
ReapPass == bpc = "reap2" /\ bpc' = "snap"

\* C4: a reap pass removes an endpoint if and only if current_time minus
\* its last-seen timestamp is strictly greater than HEARTBEAT_TIMEOUT, and it
\* changes no timestamp; with timeout 30, an endpoint last seen at 20
\* survives the passes at 45 and at 50 and is removed by the pass at 55.
C4_ReapStrict ==
    [][ReapPass =>
          /\ \A e \in DOMAIN client_last_seen :
                /\ e \in DOMAIN client_last_seen'
                      <=> ~(current_time - client_last_seen[e]
                               > HEARTBEAT_TIMEOUT)
                /\ e \in DOMAIN client_last_seen'
                      => client_last_seen'[e] = client_last_seen[e]
                /\ client_last_seen[e] = 20 /\ current_time \in {45, 50}
                      => e \in DOMAIN client_last_seen'
                /\ client_last_seen[e] = 20 /\ current_time = 55
                      => e \notin DOMAIN client_last_seen'
          /\ DOMAIN client_last_seen' \subseteq DOMAIN client_last_seen
          /\ clients' = clients \cap DOMAIN client_last_seen'
    ]_vars

\* A reap pass at 50 has left in place a record last seen at 20.
C4_Witness ==
    /\ bpc = "snap"
    /\ current_time = 50
    /\ \E e \in clients \cap DOMAIN client_last_seen :
          client_last_seen[e] = 20

\* C5: a registration of endpoint e leaves e in clients and in
\* client_last_seen with the time of this registration as its timestamp,
\* adds no other entry and changes no other timestamp; when e was registered
\* already, the number of entries stays the same.
C5_Idempotent ==
    [][\A e \in Endpoints :
          /\ lpc = "add1" /\ lpc' = "add2" /\ address = e
                => /\ clients' = clients \cup {e}
                   /\ client_last_seen' = client_last_seen
          /\ Registered(e)
                => /\ clients' = clients
                   /\ e \in clients'
                   /\ DOMAIN client_last_seen'
                         = DOMAIN client_last_seen \cup {e}
                   /\ client_last_seen'[e] = now
                   /\ \A f \in DOMAIN client_last_seen \ {e} :
                         client_last_seen'[f] = client_last_seen[f]
                   /\ e \in DOMAIN client_last_seen
                         => Cardinality(DOMAIN client_last_seen')
                               = Cardinality(DOMAIN client_last_seen)
    ]_vars

\* A registration has just replaced an older timestamp of the same endpoint.
C5_Witness ==
    /\ lpc = "ack"
    /\ refreshed # NoTime
    /\ address \in clients \cap DOMAIN client_last_seen
    /\ client_last_seen[address] = now
    /\ refreshed < now


\* The step in which recvfrom returned a datagram.
Received == lpc = "recv" /\ heard' # NoDatagram

\* Endpoint e's membership and record are the same after the step.
RecordKept(e) ==
    /\ e \in clients' <=> e \in clients
    /\ e \in DOMAIN client_last_seen' <=> e \in DOMAIN client_last_seen
    /\ e \in DOMAIN client_last_seen
          => client_last_seen'[e] = client_last_seen[e]

\* C6: the server hands an ACK to sendto only for the endpoint whose
\* CONNECT or HEARTBEAT datagram the listener is handling, and only after
\* that handling has registered the endpoint with the time of the
\* registration; the handling of a DISCONNECT or of any other datagram
\* never reaches the ACK.
C6_AckOnlyForRegister ==
    [][/\ wire' # NoDatagram /\ wire'.data = AckMessage
             => /\ lpc = "ack"
                /\ wire'.peer = heard.peer
                /\ SaysRegister(heard.data)
                /\ regTime[heard.peer] # NoTime
       /\ lpc' = "ack" /\ lpc # "ack"
             => /\ Registered(heard.peer)
                /\ client_last_seen'[heard.peer] = now
       /\ Received /\ ~SaysRegister(heard'.data)
             => lpc' \notin {"add1", "add2", "ack"}
       /\ lpc \in Handling /\ lpc' \in Handling => heard' = heard
    ]_vars

\* An ACK has just gone to an endpoint that sent CONNECT or HEARTBEAT.
C6_Witness ==
    /\ wire.data = AckMessage
    /\ wire.peer \in clients
    /\ regTime[wire.peer] = now

\* C7: the handling of DISCONNECT from endpoint e removes e from clients
\* and from client_last_seen when it is there and changes nothing when it
\* is not, hands nothing to sendto, and leaves the membership and the
\* timestamp of every other endpoint as they were.
C7_DisconnectFrame ==
    [][/\ Received /\ SaysDisconnect(heard'.data)
             => /\ lpc' = "disc1"
                /\ address' = heard'.peer
                /\ \A f \in Endpoints : RecordKept(f)
       /\ lpc = "disc1" /\ lpc' = "disc2"
             => /\ address = heard.peer
                /\ SaysDisconnect(heard.data)
                /\ clients' = clients \ {address}
                /\ client_last_seen' = client_last_seen
                /\ wire' = NoDatagram
       /\ lpc = "disc2" /\ lpc' # "disc2"
             => /\ lpc' = "while"
                /\ address \notin clients'
                /\ address \notin DOMAIN client_last_seen'
                /\ \A f \in Endpoints \ {address} : RecordKept(f)
                /\ address \notin DOMAIN client_last_seen
                      => client_last_seen' = client_last_seen
                /\ wire' = NoDatagram
    ]_vars

\* The handling of a DISCONNECT is removing a registered endpoint while
\* another endpoint is registered.
C7_Witness ==
    /\ lpc = "disc2"
    /\ address \notin clients
    /\ address \in DOMAIN client_last_seen
    /\ \E f \in clients \ {address} : f \in DOMAIN client_last_seen

\* C8: a datagram that cannot be decoded, or whose stripped text is none
\* of CONNECT, HEARTBEAT and DISCONNECT, changes neither the membership nor
\* any timestamp, hands nothing to sendto, and leaves the listener at the
\* top of its loop, from where it receives again while the server runs.
C8_JunkDiscarded ==
    [][/\ Received /\ ~SaysRegister(heard'.data)
                   /\ ~SaysDisconnect(heard'.data)
             => /\ clients' = clients
                /\ client_last_seen' = client_last_seen
                /\ wire' = NoDatagram
                /\ lpc' = "while"
       /\ lpc = "while" /\ lpc' # "while"
             => lpc' = IF running THEN "recv" ELSE "done"
    ]_vars

\* A datagram that is not UTF-8 has just been discarded with an endpoint
\* registered.
C8_Witness ==
    /\ heard # NoDatagram
    /\ \E i \in 1..Len(heard.data) : heard.data[i] = BadBytes
    /\ lpc = "while"
    /\ clients # {}


\* The lines of the traversal up to the n-th, as datagrams.
Expected(n) == [i \in 1..n |-> DataMessage(lines[i])]

\* Endpoint e is in the registry with a record.
InRegistry(e) == e \in clients /\ e \in DOMAIN client_last_seen

\* C2: when sendto raises for endpoint a during a tick, the handler removes
\* a from clients and from client_last_seen and leaves every other endpoint's
\* membership and timestamp alone; the tick goes on, so that at its end
\* every endpoint of the snapshot has either been sent the current line or
\* had its sendto raise; every snapshot is the registry of its moment; and a
\* CONNECT from a puts a back in the registry, hence in the next snapshot.
C2_FailedSendEvictsOne ==
    /\ [](/\ bpc = "sleep"
               => /\ delivered \cup failed = clients_copy
                  /\ delivered \cap failed = {}
          /\ bpc \in {"send", "evict1", "evict2"}
               => delivered \cup failed = clients_copy \ todo)
    /\ [][/\ \A e \in Endpoints :
                /\ SendRaisedFor(e)
                      => \A f \in Endpoints : RecordKept(f)
                /\ LineSentTo(e)
                      => /\ wire' = Datagram(e, DataMessage(lines[idx]))
                         /\ e \in clients_copy
                         /\ \A f \in Endpoints : RecordKept(f)
                /\ Registered(e) => InRegistry(e)'
          /\ bpc = "evict1" /\ bpc' = "evict2"
                => /\ clients' = clients \ {client_address}
                   /\ client_last_seen' = client_last_seen
          /\ bpc = "evict2" /\ bpc' \in {"send", "sleep"}
                => /\ client_address \notin clients'
                   /\ client_address \notin DOMAIN client_last_seen'
                   /\ \A f \in Endpoints \ {client_address} : RecordKept(f)
          /\ bpc = "snap" /\ bpc' \in {"send", "sleep"}
                => clients_copy' = clients /\ todo' = clients
       ]_vars

\* A tick has ended in which sendto raised for A, which is out of the
\* registry, and B was sent the line and is still registered.
C2_Witness ==
    /\ bpc = "sleep"
    /\ failed = {"A"}
    /\ delivered = {"B"}
    /\ "A" \notin clients /\ "A" \notin DOMAIN client_last_seen
    /\ InRegistry("B")

\* C3: an endpoint registered since the traversal's load has been sent, in
\* this traversal, exactly the lines 1..idx-1 before the tick of line idx
\* and exactly the lines 1..idx after it, each once and in source order, so
\* all N lines after the last tick; a tick is followed by the next line, and
\* the last one by a new traversal, which starts at line 1.
C3_OncePerTraversalInOrder ==
    /\ [](\A e \in Endpoints :
             steady[e] /\ bpc \in {"for", "reap1", "reap2", "snap", "send",
                                   "evict1", "evict2", "sleep"}
                => /\ Len(sentLog[e]) \in {idx - 1, idx}
                   /\ sentLog[e] = Expected(Len(sentLog[e]))
                   /\ bpc = "sleep" => Len(sentLog[e]) = idx
                   /\ bpc \in {"for", "reap1", "reap2", "snap"}
                         => Len(sentLog[e]) = idx - 1)
    /\ [][/\ Slept /\ idx < Len(lines)
                => idx' = idx + 1 /\ lines' = lines /\ bpc' = "for"
          /\ Slept /\ idx >= Len(lines) => bpc' = "while"
          /\ Loaded /\ bpc' = "for" => idx' = 1 /\ lines' # <<>>
       ]_vars

\* The last tick of a two-line traversal has ended with both lines sent, in
\* order, to an endpoint registered throughout.
C3_Witness ==
    /\ bpc = "sleep"
    /\ idx = 2 /\ Len(lines) = 2 /\ lines[1] # lines[2]
    /\ \E e \in Endpoints :
          steady[e] /\ sentLog[e] = <<DataMessage(lines[1]),
                                      DataMessage(lines[2])>>

\* C9: a tick whose snapshot is empty goes straight to its sleep: nothing is
\* handed to sendto, no sendto raises, the membership and the timestamps stay
\* as they are; after the sleep the loop is at the next line, or at a new
\* traversal after the last line.
C9_EmptyTick ==
    /\ [](bpc = "sleep" /\ clients_copy = {}
             => delivered = {} /\ failed = {})
    /\ [][/\ bpc = "snap" /\ bpc' \notin {"snap", "stopping"} /\ clients = {}
                => /\ bpc' = "sleep"
                   /\ clients_copy' = {}
                   /\ wire' = NoDatagram
                   /\ clients' = clients
                   /\ client_last_seen' = client_last_seen
          /\ bpc = "sleep" /\ bpc' \notin {"sleep", "stopping"}
                          /\ clients_copy = {}
                => /\ bpc' = IF idx < Len(lines) THEN "for" ELSE "while"
                   /\ idx < Len(lines) => idx' = idx + 1
                   /\ wire' = NoDatagram
                   /\ clients' = clients
                   /\ client_last_seen' = client_last_seen
       ]_vars

\* The first tick of a two-line traversal has ended with an empty snapshot.
C9_Witness ==
    /\ bpc = "sleep"
    /\ clients_copy = {}
    /\ idx = 1 /\ Len(lines) = 2
    /\ delivered = {}

\* The payload file yields no lines: it is gone, unreadable or empty.
NoLines(f) == ~f.exists \/ ~f.readable \/ f.content = <<>>

\* C10: a load that finds no lines leads to the wait and the wait back to
\* the load, and a load that finds lines to the tick of line 1; the
\* broadcaster leaves its loop only on the interrupt; and while it loads or
\* waits the server runs with its socket open and the lock not held by the
\* broadcaster, so that the listener goes on registering.
C10_EmptySourceWaits ==
    /\ [](bpc \in {"while", "wait"}
             => running /\ sockOpen /\ lock # "broadcaster")
    /\ [][/\ bpc = "while" /\ bpc' # "while" /\ ~interrupted'
                => /\ NoLines(file) => bpc' = "wait"
                   /\ ~NoLines(file)
                         => /\ bpc' = "for"
                            /\ idx' = 1
                            /\ Len(lines') = Len(file.content)
                   /\ clients' = clients
                   /\ client_last_seen' = client_last_seen
          /\ bpc = "wait" /\ bpc' # "wait" /\ ~interrupted'
                => /\ bpc' = "while"
                   /\ clients' = clients
                   /\ client_last_seen' = client_last_seen
          /\ Broadcasting /\ ~Broadcasting' => interrupted'
       ]_vars

\* The broadcaster waits, the file has got lines since, and the listener is
\* acknowledging a registration.
C10_Witness ==
    /\ bpc = "wait"
    /\ ~NoLines(file)
    /\ lpc = "ack"
    /\ address \in clients


\* C11: a process that has exited after start() raised (the payload file is
\* missing, or bind failed) has a nonzero status, and one that has exited
\* after an interrupt of a started server has status zero and a closed socket.
C11_ExitStatus ==
    bpc = "exited"
       => /\ start_error => exit_status # EXIT_OK
          /\ interrupted => exit_status = EXIT_OK /\ ~sockOpen

\* C12: once stop() has cleared the running flag, the broadcaster begins no
\* tick and the listener begins no receive (so it handles at most the
\* datagram of the receive it was in), and from then on the broadcast loop
\* is over and the listener loop comes to its end.
C12_CooperativeShutdown ==
    /\ [][/\ ~running => ~(bpc = "for" /\ bpc' = "reap1")
          /\ ~running /\ lpc \notin {"unborn", "recv"} => lpc' # "recv"
       ]_vars
    /\ [](bpc \in {"closing", "done", "exited"} => ~running)
    /\ (bpc = "closing") ~> (lpc \in {"unborn", "done", "killed"})

\* The flag has been cleared after an interrupt and the listener has left
\* its loop by itself, before the process exits.
C12_Witness ==
    /\ ~running
    /\ interrupted
    /\ bpc = "done"
    /\ lpc = "done"


\* C13: the listener holds the lock only inside add_client and the
\* DISCONNECT block, the broadcaster only inside remove_stale_clients and
\* the failure handler, so neither holds it at recvfrom or at a sendto; the
\* broadcaster sends to what is left of the snapshot, which no registration
\* or removal alters; and while a transmission is pending or has just
\* failed, a listener that wants the lock for a registration gets it.
C13_NoLockDuringIO ==
    /\ [](/\ lock = "listener" => lpc \in {"add2", "disc2"}
          /\ lock = "broadcaster" => bpc \in {"reap2", "evict2"}
          /\ lpc \in {"recv", "ack"} => lock # "listener"
          /\ bpc \in {"send", "evict1"} => lock # "broadcaster"
          /\ bpc \in {"send", "evict1", "evict2"} => todo \subseteq clients_copy
          /\ bpc \in {"send", "evict1"} /\ lpc = "add1" => lock = "free")
    /\ [][/\ bpc \in {"send", "evict1", "evict2"} /\ bpc' # "stopping"
                => clients_copy' = clients_copy \/ bpc' \in {"for", "while"}
          /\ bpc = "send" /\ bpc' = "send" /\ todo' = todo
                => clients_copy' = clients_copy
       ]_vars

\* While the broadcaster is at a sendto, the listener has completed the
\* registration of an endpoint that is not in the snapshot.
C13_Witness ==
    /\ bpc = "send"
    /\ lpc = "ack"
    /\ address \in clients \ clients_copy
    /\ address \in DOMAIN client_last_seen

\* C14: whenever the lock is not held, clients is the key set of
\* client_last_seen.
C14_RegistryAtomic ==
    lock = "free" => clients = DOMAIN client_last_seen


\* C14, up to the interrupt: whenever the lock is not held and no
\* KeyboardInterrupt has been raised, clients is the key set of
\* client_last_seen.
C14_UntilInterrupt ==
    lock = "free" /\ ~interrupted => clients = DOMAIN client_last_seen


\* The record of endpoint e is older than the timeout.
Stale(e) ==
    /\ e \in DOMAIN client_last_seen
    /\ now - client_last_seen[e] > HEARTBEAT_TIMEOUT

\* C15 as stated: in every state of the running broadcaster, a record
\* older than the timeout is eventually removed (or refreshed), whatever the
\* payload file holds.
C15_AsStated ==
    \A e \in Endpoints :
        (Stale(e) /\ Broadcasting) ~> (~Stale(e) \/ ~Broadcasting)

\* C15: every tick of a traversal starts with a reap pass, which reads the
\* clock and leaves no record older than the timeout at that reading, so
\* while the payload file yields lines a record older than the timeout is
\* eventually removed (or refreshed); loading and waiting for lines remove
\* no record.
C15_ReapEveryTick ==
    /\ [][/\ bpc = "for" /\ bpc' \notin {"for", "stopping"}
                => bpc' = "reap1" /\ current_time' = now
          /\ bpc # "snap" /\ bpc' = "snap"
                => /\ bpc = "reap2"
                   /\ \A e \in DOMAIN client_last_seen' :
                         ~(current_time - client_last_seen'[e]
                              > HEARTBEAT_TIMEOUT)
                   /\ \A e \in DOMAIN client_last_seen :
                         current_time - client_last_seen[e] > HEARTBEAT_TIMEOUT
                            => e \notin clients'
          /\ bpc \in {"while", "wait"} /\ bpc' \in {"while", "wait"}
                                       /\ lpc' = lpc
                => client_last_seen' = client_last_seen /\ clients' = clients
       ]_vars
    /\ \A e \in Endpoints :
          (Stale(e) /\ Broadcasting /\ ~NoLines(file))
             ~> (~Stale(e) \/ ~Broadcasting)

\* A reap pass has just removed a record older than the timeout.
C15_Witness ==
    /\ bpc = "snap"
    /\ \E e \in Endpoints :
          /\ gone[e] = "reap"
          /\ e \notin clients
          /\ e \notin DOMAIN client_last_seen
          /\ now - regTime[e] > HEARTBEAT_TIMEOUT


\* C16 as stated: no data line is handed to sendto for an endpoint whose
\* DISCONNECT has been processed and which has not registered since.
C16_AsStated ==
    [][\A e \in Endpoints : LineSentTo(e) => ~Departed(e)]_vars

\* C16: an endpoint whose DISCONNECT has been processed, and which has not
\* registered since, is in no snapshot taken from then on, and is sent at
\* most one more line: the line of the tick whose snapshot was taken before
\* the DISCONNECT was processed.
C16_AtMostOneLateLine ==
    /\ [](\A e \in Endpoints :
             /\ late[e] <= 1
             /\ Departed(e) /\ lock # "listener" => e \notin clients)
    /\ [][\A e \in Endpoints :
             /\ bpc = "snap" /\ bpc' \in {"send", "sleep"} /\ Departed(e)
                   => e \notin clients_copy'
             /\ LineSentTo(e) /\ Departed(e)
                   => e \in clients_copy /\ late[e] = 0
       ]_vars

\* An endpoint has been sent one line after its DISCONNECT was processed,
\* and the next tick's snapshot has been taken without it.
C16_Witness ==
    \E e \in Endpoints :
        /\ late[e] = 1
        /\ Departed(e)
        /\ bpc = "send"
        /\ e \notin clients_copy


\* The broadcaster is inside a traversal of the loaded lines.
InTraversal ==
    bpc \in {"for", "reap1", "reap2", "snap", "send", "evict1", "evict2",
             "sleep"}

\* C17: the load at the start of a traversal takes the lines the file holds
\* at that moment; inside the traversal the loaded sequence stays as it is,
\* whatever is done to the file, and every line handed to sendto is the
\* line at the current position of that sequence; the sequence is dropped
\* only at the end of the traversal, after which the next load reads the
\* file again.
C17_ReadOncePerTraversal ==
    [][/\ Loaded => lines' = read_file_lines(file)
       /\ InTraversal /\ InTraversal' => lines' = lines
       /\ file' # file => lines' = lines /\ idx' = idx /\ bpc' = bpc
       /\ lines' # lines
             => \/ Loaded
                \/ bpc \in {"sleep", "for"} /\ bpc' = "while" /\ lines' = <<>>
       /\ \A e \in Endpoints :
             LineSentTo(e)
                => /\ idx \in 1..Len(lines)
                   /\ wire' = Datagram(e, DataMessage(lines[idx]))
       /\ InTraversal /\ bpc' = "while" => idx >= Len(lines) \/ ~running
    ]_vars

\* The second line of a loaded two-line sequence is being sent to a
\* subscriber that was sent the first, while the file holds other lines.
C17_Witness ==
    /\ bpc = "send"
    /\ idx = 2 /\ Len(lines) = 2
    /\ read_file_lines(file) # lines
    /\ \E e \in todo : steady[e] /\ Len(sentLog[e]) = 1


\* C18: when the failure handler completes for an endpoint that was
\* registered and acknowledged after its sendto raised and before the
\* handler took the lock, the endpoint is in clients and has a timestamp.
C18_EvictionKeepsNewer ==
    [][bpc = "evict2" /\ bpc' \in {"send", "sleep"} /\ renewed = "acked"
          => /\ client_address \in clients'
             /\ client_address \in DOMAIN client_last_seen'
    ]_vars


\* The client's heartbeat thread hands a HEARTBEAT to sendto.
HeartbeatSent == hpc = "send" /\ net' = Append(net, <<"HEARTBEAT">>)

\* C19: once stop() has sent DISCONNECT, the client hands no HEARTBEAT to
\* sendto.
C19_NoHeartbeatAfterDisconnect ==
    [][HeartbeatSent => cpc \notin {"flag", "close", "done", "exited"}]_vars

\* C20: while the client runs, the reap pass has not removed its endpoint,
\* and the record the server holds of it is not older than the timeout.
C20_LiveClientNotReaped ==
    cpc = "receive"
       => /\ gone[ClientEndpoint] # "reap"
          /\ ClientEndpoint \in DOMAIN client_last_seen
                => now - client_last_seen[ClientEndpoint] <= HEARTBEAT_TIMEOUT

\* A reap pass has just run, more than the timeout after the start, and the
\* running client is in the registry with a record refreshed by a
\* HEARTBEAT.
C20_Witness ==
    /\ cpc = "receive"
    /\ bpc = "snap"
    /\ now - StartTime > HEARTBEAT_TIMEOUT
    /\ ClientEndpoint \in clients
    /\ ClientEndpoint \in DOMAIN client_last_seen
    /\ client_last_seen[ClientEndpoint] > StartTime
    /\ gone[ClientEndpoint] = "no"

====
